---- MODULE Spec2Model ----
(***************************************************************************)
(* go-flac: the FLAC metadata container (magic, metadata blocks, frames),  *)
(* File.WriteTo, File.Save with its in-place engine, and File.Close.       *)
(* Bytes are integers 0..255; byte strings are sequences of bytes.         *)
(***************************************************************************)
EXTENDS Integers, Sequences, FiniteSets, TLC

(***************************************************************************)
(* Bounds of the explored inputs.                                          *)
(***************************************************************************)
\* longest payload of a metadata block, in the input and in an appended block
MaxPayload == 2
\* number of metadata blocks of the input container
MaxInitBlocks == 2
\* bytes of the frame region after its two sync bytes
MaxAudioTail == 3
\* edits of File.Meta by the caller between operations
MaxEdits == 1
\* library calls (ParseBytes, ParseFile, WriteTo, Save, Close) of one run
MaxOps == 3
\* longest buffer a caller reads File.Frames with
MaxReadBuf == 3
\* the chunk sizes of the in-place engine tried: 1..MaxChunk
MaxChunk == 6

(***************************************************************************)
(* Program constants.                                                      *)
(***************************************************************************)
\* bufferSize of saveInPlace (256 KiB in the source, scaled to bytes here)
bufferSize == 2
\* the buffer io.Copy reads with (32 KiB in the Go library, scaled)
copyBufSize == 3
\* a sink that accepts every byte
NoLimit == 1000

Min(a, b) == IF a < b THEN a ELSE b

\* "fLaC"
Magic == <<102, 76, 97, 67>>

\* BlockType values
StreamInfo == 0
Padding == 1
VorbisComment == 4

Take(s, n) == SubSeq(s, 1, Min(n, Len(s)))
Drop(s, n) == SubSeq(s, Min(n, Len(s)) + 1, Len(s))

(***************************************************************************)
(* Readers.  A reader is a record with a kind:                             *)
(*   "nil"     no reader (File.Frames == nil)                              *)
(*   "bytes"   bytes.Reader over data, off bytes consumed                  *)
(*   "file"    *os.File opened as name: descriptor fd on object obj, at off *)
(*   "bufio"   BufIOWithInner around inner                                 *)
(*   "prefix"  PrefixReader{prefix, r}                                     *)
(*   "error"   ErrorReader{err}                                            *)
(* The operating system os is [fs, open]: fs maps each storage object to   *)
(* its bytes, open is the set of open descriptors.                         *)
(***************************************************************************)
NilReader == [kind |-> "nil"]
BytesReader(data) == [kind |-> "bytes", data |-> data, off |-> 0]
OsFile(name, obj, fd) == [kind |-> "file", name |-> name, obj |-> obj, fd |-> fd, off |-> 0]
NewBufIOWithInner(inner) == [kind |-> "bufio", inner |-> inner]
ErrorReader(err) == [kind |-> "error", err |-> err]
PrefixReader(prefix, r) == [kind |-> "prefix", prefix |-> prefix, r |-> r]

\* the result of one Read(p) with len(p) = k: the bytes, the error, the reader after
ReadResult(data, err, r) == [data |-> data, err |-> err, r |-> r]

\* (*bytes.Reader).Read, and a file's read, over the bytes src of the source
SourceRead(r, src, k) ==
    LET avail == Len(src) - r.off
        n == Min(k, avail)
    IN  IF avail <= 0
        THEN ReadResult(<<>>, "EOF", r)
        ELSE ReadResult(SubSeq(src, r.off + 1, r.off + n), "nil", [r EXCEPT !.off = r.off + n])

\* (*os.File).Read: fails on a closed descriptor
FileRead(f, os, k) ==
    IF f.fd \notin os.open
    THEN ReadResult(<<>>, "ErrClosed", f)
    ELSE SourceRead(f, os.fs[f.obj], k)

ErrorReaderRead(e, k) == ReadResult(<<>>, e.err, e)

RECURSIVE Read(_, _, _)
\* BufIOWithInner.Read after the inner reader returned res
BufIOForward(b, res) == ReadResult(res.data, res.err, [b EXCEPT !.inner = res.r])

\* BufIOWithInner.Read: bufio serves the inner reader's bytes in order
BufIOWithInnerRead(b, os, k) == BufIOForward(b, Read(b.inner, os, k))

\* PrefixReader.Read with an empty prefix, after c.r.Read(p) returned res
PrefixForward(c, res) == ReadResult(res.data, res.err, [c EXCEPT !.r = res.r])

\* fault: PrefixReader.Read dropping the prefix bytes the buffer had no room for
PrefixReaderReadDropRest(c, os, k) ==
    IF Len(c.prefix) = 0
    THEN PrefixForward(c, Read(c.r, os, k))
    ELSE ReadResult(Take(c.prefix, Min(k, Len(c.prefix))), "nil",
                    [c EXCEPT !.prefix = <<>>])

\* PrefixReader.Read: n = copy(p, c.prefix); c.prefix = c.prefix[n:]
PrefixReaderRead(c, os, k) ==
    IF Len(c.prefix) = 0
    THEN PrefixForward(c, Read(c.r, os, k))
    ELSE ReadResult(Take(c.prefix, Min(k, Len(c.prefix))), "nil",
                    [c EXCEPT !.prefix = Drop(c.prefix, Min(k, Len(c.prefix)))])

\* io.Reader.Read, dispatched on the dynamic type
Read(r, os, k) ==
    CASE r.kind = "bytes" -> SourceRead(r, r.data, k)
      [] r.kind = "file" -> FileRead(r, os, k)
      [] r.kind = "bufio" -> BufIOWithInnerRead(r, os, k)
      [] r.kind = "prefix" -> PrefixReaderRead(r, os, k)
      [] r.kind = "error" -> ErrorReaderRead(r, k)

RECURSIVE ReadFullFrom(_, _, _, _)
\* io.ReadFull after one Read returned res: EOF after some bytes is
\* ErrUnexpectedEOF, any other error is returned as it is
ReadFullNext(os, k, got, res) ==
    IF res.err # "nil"
    THEN ReadResult(got \o res.data,
                    IF res.err = "EOF" /\ Len(got \o res.data) > 0
                    THEN "ErrUnexpectedEOF" ELSE res.err,
                    res.r)
    ELSE ReadFullFrom(res.r, os, k, got \o res.data)

ReadFullFrom(r, os, k, got) ==
    IF Len(got) >= k
    THEN ReadResult(got, "nil", r)
    ELSE ReadFullNext(os, k, got, Read(r, os, k - Len(got)))

\* io.ReadFull(r, buf) with len(buf) = k
ReadFull(r, os, k) == ReadFullFrom(r, os, k, <<>>)

RECURSIVE isFileBacked(_)
\* the *os.File under the wrappers, or NilReader
isFileBacked(r) ==
    CASE r.kind = "file" -> r
      [] r.kind = "prefix" -> isFileBacked(r.r)
      [] r.kind = "bufio" -> isFileBacked(r.inner)
      [] OTHER -> NilReader

\* r.(io.Closer): the types that have a Close method
IsCloser(r) == r.kind \in {"file", "prefix"}

RECURSIVE CloseReader(_, _)
\* PrefixReader.Close: closes c.r if c.r is an io.Closer
PrefixReaderClose(c, open) ==
    IF IsCloser(c.r) THEN CloseReader(c.r, open) ELSE open

\* Close() on a reader: the set of descriptors open afterwards
CloseReader(r, open) ==
    CASE r.kind = "file" -> open \ {r.fd}
      [] r.kind = "prefix" -> PrefixReaderClose(r, open)
      [] OTHER -> open

\* File.Close: c.Frames.(io.Closer) and its Close
Close(frames, open) ==
    IF IsCloser(frames) THEN CloseReader(frames, open) ELSE open

(***************************************************************************)
(* The metadata block codec.                                               *)
(***************************************************************************)
MetaDataBlock(type, data) == [Type |-> type, Data |-> data]

\* encodeUint32: the four big-endian bytes of n
encodeUint32(n) ==
    << (n \div 16777216) % 256, (n \div 65536) % 256, (n \div 256) % 256, n % 256 >>

\* (isfinal << 7) | type, as one byte
MarshalByte0(type, isfinal) ==
    IF isfinal /\ (type \div 128) % 2 = 0 THEN (type + 128) % 256 ELSE type % 256

\* the four header bytes Marshal writes for a payload of n bytes: flag and
\* type, then the three low bytes of encodeUint32(n)
MarshalHeader(type, n, isfinal) ==
    <<MarshalByte0(type, isfinal)>> \o SubSeq(encodeUint32(n), 2, 4)

\* MetaDataBlock.Marshal(isfinal): flag and type, the 24-bit big-endian
\* length of the payload, the payload
Marshal(block, isfinal) ==
    MarshalHeader(block.Type, Len(block.Data), isfinal) \o block.Data

\* header[0]>>7 != 0
HeaderIsFinal(header) == header[1] \div 128 # 0

\* BlockType(header[0] << 1 >> 1), in 8 bits
HeaderType(header) == ((header[1] * 2) % 256) \div 2

\* the bytes of a uint32 shifted left, and right, by 8 bits
Shl8(w) == <<w[2], w[3], w[4], 0>>
Shr8(w) == <<0, w[1], w[2], w[3]>>

\* the uint32 read big-endian from header, then length << 8 >> 8
HeaderLength(header) ==
    Shr8(Shl8(header))[2] * 65536 + Shr8(Shl8(header))[3] * 256 + Shr8(Shl8(header))[4]

\* fault: parseMetadataBlock ignoring the error of the payload read
parseMetadataBlockDataNoCheck(header, buf) ==
    [block |-> MetaDataBlock(HeaderType(header), buf.data),
     isfinal |-> HeaderIsFinal(header), err |-> "nil", r |-> buf.r]

\* parseMetadataBlock after the payload read returned buf
parseMetadataBlockData(header, buf) ==
    [block |-> MetaDataBlock(HeaderType(header), IF buf.err = "nil" THEN buf.data ELSE <<>>),
     isfinal |-> HeaderIsFinal(header), err |-> buf.err, r |-> buf.r]

\* parseMetadataBlock after the header read returned hd
parseMetadataBlockHeader(hd, os) ==
    IF hd.err # "nil"
    THEN [block |-> MetaDataBlock(0, <<>>), isfinal |-> FALSE, err |-> hd.err, r |-> hd.r]
    ELSE parseMetadataBlockData(hd.data, ReadFull(hd.r, os, HeaderLength(hd.data)))

\* parseMetadataBlock: the block, its last flag, the error, the reader after
parseMetadataBlock(f, os) == parseMetadataBlockHeader(ReadFull(f, os, 4), os)

RECURSIVE readMetadataBlocksFrom(_, _, _)
\* fault: readMetadataBlocks reading on after the block with the last flag
readMetadataBlocksNextIgnoreFlag(os, blocks, one) ==
    IF one.err # "nil"
    THEN [blocks |-> blocks, err |-> one.err, r |-> one.r]
    ELSE readMetadataBlocksFrom(one.r, os, Append(blocks, one.block))

\* the loop of readMetadataBlocks after parseMetadataBlock returned one
readMetadataBlocksNext(os, blocks, one) ==
    IF one.err # "nil"
    THEN [blocks |-> blocks, err |-> one.err, r |-> one.r]
    ELSE IF one.isfinal
         THEN [blocks |-> Append(blocks, one.block), err |-> "nil", r |-> one.r]
         ELSE readMetadataBlocksFrom(one.r, os, Append(blocks, one.block))

readMetadataBlocksFrom(f, os, blocks) ==
    readMetadataBlocksNext(os, blocks, parseMetadataBlock(f, os))

\* readMetadataBlocks: parse blocks up to and including the first final one
readMetadataBlocks(f, os) == readMetadataBlocksFrom(f, os, <<>>)

\* fault: readFLACHead comparing only the first byte with the magic
readFLACHeadCheckFirstByte(buffer) ==
    IF buffer.err # "nil"
    THEN [err |-> buffer.err, r |-> buffer.r]
    ELSE IF buffer.data[1] # Magic[1]
         THEN [err |-> "ErrorNoFLACHeader", r |-> buffer.r]
         ELSE [err |-> "nil", r |-> buffer.r]

\* readFLACHead after the read of four bytes returned buffer
readFLACHeadCheck(buffer) ==
    IF buffer.err # "nil"
    THEN [err |-> buffer.err, r |-> buffer.r]
    ELSE IF buffer.data # Magic
         THEN [err |-> "ErrorNoFLACHeader", r |-> buffer.r]
         ELSE [err |-> "nil", r |-> buffer.r]

\* readFLACHead: the error and the reader after the four magic bytes
readFLACHead(f, os) == readFLACHeadCheck(ReadFull(f, os, 4))

\* fault: the sync check comparing only the top five bits of the second byte
NoSyncCodeShift3(first2Bytes) == first2Bytes[1] # 255 \/ first2Bytes[2] \div 8 # 31

\* first2Bytes[0] != 0xFF || first2Bytes[1]>>2 != 0x3E
NoSyncCode(first2Bytes) == first2Bytes[1] # 255 \/ first2Bytes[2] \div 4 # 62

\* fault: checkFLACStream that does not replay the two sync bytes it peeked
checkFLACStreamNoReplay(rd) ==
    IF rd.err # "nil"
    THEN [err |-> rd.err, frames |-> NilReader]
    ELSE IF NoSyncCode(rd.data)
         THEN [err |-> "ErrorNoSyncCode", frames |-> NilReader]
         ELSE [err |-> "nil", frames |-> PrefixReader(<<>>, rd.r)]

\* checkFLACStream after the read of two bytes returned rd
checkFLACStreamCheck(rd) ==
    IF rd.err # "nil"
    THEN [err |-> rd.err, frames |-> NilReader]
    ELSE IF NoSyncCode(rd.data)
         THEN [err |-> "ErrorNoSyncCode", frames |-> NilReader]
         ELSE [err |-> "nil", frames |-> PrefixReader(rd.data, rd.r)]

\* checkFLACStream: the frame reader that replays the two sync bytes
checkFLACStream(f, os) == checkFLACStreamCheck(ReadFull(f, os, 2))

\* ParseMetadata after readMetadataBlocks returned res
ParseMetadataBlocks(res) ==
    [meta |-> IF res.err = "nil" THEN res.blocks ELSE <<>>, err |-> res.err, r |-> res.r]

\* ParseMetadata after readFLACHead returned head
ParseMetadataHead(head, os) ==
    IF head.err # "nil"
    THEN [meta |-> <<>>, err |-> head.err, r |-> head.r]
    ELSE ParseMetadataBlocks(readMetadataBlocks(head.r, os))

\* ParseMetadata: Meta, the error, the reader after the metadata
ParseMetadata(f, os) == ParseMetadataHead(readFLACHead(f, os), os)

\* ParseBytes after checkFLACStream returned chk
ParseBytesFrames(meta, chk) ==
    IF chk.err # "nil"
    THEN [meta |-> <<>>, frames |-> NilReader, err |-> chk.err]
    ELSE [meta |-> meta, frames |-> chk.frames, err |-> "nil"]

\* ParseBytes after ParseMetadata returned res
ParseBytesMeta(res, os) ==
    IF res.err # "nil"
    THEN [meta |-> <<>>, frames |-> NilReader, err |-> res.err]
    ELSE ParseBytesFrames(res.meta, checkFLACStream(res.r, os))

\* ParseBytes: the File (Meta, Frames) or the error
ParseBytes(f, os) == ParseBytesMeta(ParseMetadata(f, os), os)

(***************************************************************************)
(* File.GetStreamInfo.  The unsigned integers the decoder shifts are byte  *)
(* tuples, most significant byte first, so that a shift keeps the width of *)
(* its type; SampleCount, an int64, stays a tuple of eight bytes.          *)
(***************************************************************************)
RECURSIVE Pow2(_)
Pow2(s) == IF s = 0 THEN 1 ELSE 2 * Pow2(s - 1)

\* w << s and w >> s for s < 8, in the width of w
ShlBits(w, s) ==
    [i \in 1..Len(w) |->
        ((w[i] * Pow2(s)) % 256) + (IF i < Len(w) THEN w[i + 1] \div Pow2(8 - s) ELSE 0)]
ShrBits(w, s) ==
    [i \in 1..Len(w) |->
        (w[i] \div Pow2(s)) + (IF i > 1 THEN (w[i - 1] % Pow2(s)) * Pow2(8 - s) ELSE 0)]

RECURSIVE Shl(_, _)
\* w << s, in the width of w
Shl(w, s) ==
    IF s >= 8 THEN Shl(Drop(w, 1) \o <<0>>, s - 8)
    ELSE IF s = 0 THEN w ELSE ShlBits(w, s)

RECURSIVE Shr(_, _)
\* w >> s, in the width of w
Shr(w, s) ==
    IF s >= 8 THEN Shr(<<0>> \o Take(w, Len(w) - 1), s - 8)
    ELSE IF s = 0 THEN w ELSE ShrBits(w, s)

RECURSIVE ToInt(_)
\* int(w), for values below 2^31
ToInt(w) == IF Len(w) = 0 THEN 0 ELSE (ToInt(Take(w, Len(w) - 1)) * 256) + w[Len(w)]

\* int64(w): w widened to n bytes
Widen(w, n) == [k \in 1..(n - Len(w)) |-> 0] \o w

RECURSIVE AddFrom(_, _, _, _)
\* the bytes 1..i of a + b, given the carry into byte i
AddFrom(a, b, i, carry) ==
    IF i = 0 THEN <<>>
    ELSE AddFrom(a, b, i - 1, (a[i] + b[i] + carry) \div 256)
            \o <<(a[i] + b[i] + carry) % 256>>

\* a + b in the width of a
Add(a, b) == AddFrom(a, b, Len(a), 0)

\* the reads of GetStreamInfo touch no file
NoOS == [fs |-> <<>>, open |-> {}]

\* readUint8, readUint16, readUint32: binary.Read of k bytes
readUint(r, k) == ReadFull(r, NoOS, k)

\* streamInfo.Read(buf) with len(buf) = k
readBuf(r, k) == Read(r, NoOS, k)

\* streamInfo.Seek(-1, io.SeekCurrent)
SeekBack(r) == [r EXCEPT !.off = r.off - 1]

\* a buffer after a Read returned rd: the bytes read, then what it held
Refill(buf, rd) == rd.data \o Drop(buf, Len(rd.data))

\* res := StreamInfoBlock{}
StreamInfoBlock ==
    [BlockSizeMin |-> 0, BlockSizeMax |-> 0, FrameSizeMin |-> 0, FrameSizeMax |-> 0,
     SampleRate |-> 0, ChannelCount |-> 0, BitDepth |-> 0,
     SampleCount |-> <<0, 0, 0, 0, 0, 0, 0, 0>>, AudioMD5 |-> <<>>]

\* return nil, err
infoFail(err) == [res |-> "nil", err |-> err]

\* res.AudioMD5 = make([]byte, 16); streamInfo.Read(res.AudioMD5) returned rd
infoAudioMD5(res, rd) ==
    IF rd.err # "nil" THEN infoFail(rd.err)
    ELSE [res |-> [res EXCEPT !.AudioMD5 = Refill([k \in 1..16 |-> 0], rd)], err |-> "nil"]

\* smplcount += int64(count) after readUint8 returned rd
infoSampleCountLow(res, smplcount, rd) ==
    IF rd.err # "nil" THEN infoFail(rd.err)
    ELSE infoAudioMD5([res EXCEPT !.SampleCount = Add(smplcount, Widen(rd.data, 8))],
                      readBuf(rd.r, 16))

\* smplcount += int64(count<<4>>4) << 8 after readUint32 returned rd
infoSampleCount(res, rd) ==
    IF rd.err # "nil" THEN infoFail(rd.err)
    ELSE infoSampleCountLow(res, Shl(Widen(Shr(Shl(rd.data, 4), 4), 8), 8),
                            readUint(rd.r, 1))

\* res.BitDepth = int(bitdepth<<7>>11) + 1 after readUint16 returned rd
infoBitDepth(res, rd) ==
    IF rd.err # "nil" THEN infoFail(rd.err)
    ELSE infoSampleCount([res EXCEPT !.BitDepth = ToInt(Shr(Shl(rd.data, 7), 11)) + 1],
                         readUint(SeekBack(rd.r), 4))

\* fault: channel<<4>>4, which keeps the top bit of the bit depth
infoChannelCountShift4(res, rd) ==
    IF rd.err # "nil" THEN infoFail(rd.err)
    ELSE infoBitDepth([res EXCEPT !.ChannelCount = ToInt(Shr(Shl(rd.data, 4), 4)) + 1],
                      readUint(SeekBack(rd.r), 2))

\* res.ChannelCount = int(channel<<4>>5) + 1 after readUint8 returned rd
infoChannelCount(res, rd) ==
    IF rd.err # "nil" THEN infoFail(rd.err)
    ELSE infoBitDepth([res EXCEPT !.ChannelCount = ToInt(Shr(Shl(rd.data, 4), 5)) + 1],
                      readUint(SeekBack(rd.r), 2))

\* res.SampleRate = int(smplrate >> 4) after streamInfo.Read(smpl) returned rd
infoSampleRate(res, rd) ==
    IF rd.err # "nil" THEN infoFail(rd.err)
    ELSE infoChannelCount(
            [res EXCEPT !.SampleRate = ToInt(Shr(<<0>> \o Refill(<<0, 0, 0>>, rd), 4))],
            readUint(SeekBack(rd.r), 1))

\* res.FrameSizeMax after the second streamInfo.Read(buf24) returned rd
infoFrameSizeMax(res, buf24, rd) ==
    IF rd.err # "nil" THEN infoFail(rd.err)
    ELSE infoSampleRate([res EXCEPT !.FrameSizeMax = ToInt(<<0>> \o Refill(buf24, rd))],
                        readBuf(rd.r, 3))

\* res.FrameSizeMin after the first streamInfo.Read(buf24) returned rd
infoFrameSizeMin(res, rd) ==
    IF rd.err # "nil" THEN infoFail(rd.err)
    ELSE infoFrameSizeMax(
            [res EXCEPT !.FrameSizeMin = ToInt(<<0>> \o Refill(<<0, 0, 0>>, rd))],
            Refill(<<0, 0, 0>>, rd), readBuf(rd.r, 3))

\* res.BlockSizeMax after the second readUint16 returned rd
infoBlockSizeMax(res, rd) ==
    IF rd.err # "nil" THEN infoFail(rd.err)
    ELSE infoFrameSizeMin([res EXCEPT !.BlockSizeMax = ToInt(rd.data)], readBuf(rd.r, 3))

\* res.BlockSizeMin after the first readUint16 returned rd
infoBlockSizeMin(rd) ==
    IF rd.err # "nil" THEN infoFail(rd.err)
    ELSE infoBlockSizeMax([StreamInfoBlock EXCEPT !.BlockSizeMin = ToInt(rd.data)],
                          readUint(rd.r, 2))

\* fault: GetStreamInfo without the check of the first block's type
GetStreamInfoAnyType(meta) ==
    IF Len(meta) = 0 THEN infoFail("panic: index out of range")
    ELSE infoBlockSizeMin(readUint(BytesReader(meta[1].Data), 2))

\* c.GetStreamInfo(): the block and the error; c.Meta[0] of an empty Meta
\* is an index out of range, a run-time panic
GetStreamInfo(meta) ==
    IF Len(meta) = 0 THEN infoFail("panic: index out of range")
    ELSE IF meta[1].Type # StreamInfo THEN infoFail("ErrorNoStreamInfo")
    ELSE infoBlockSizeMin(readUint(BytesReader(meta[1].Data), 2))

(***************************************************************************)
(* The container assembler.                                                *)
(***************************************************************************)
\* how many of len more bytes a sink that holds held takes.  A sink of
\* cap >= 0 accepts cap bytes in all; a sink of cap < 0 fails once, on the
\* write that crosses -cap bytes, and accepts every write after that one
Accepted(held, cap, len) ==
    IF cap < 0
    THEN (IF held < -cap /\ held + len > -cap THEN -cap - held ELSE len)
    ELSE IF cap - held >= len THEN len ELSE IF cap - held > 0 THEN cap - held ELSE 0

\* w.Write(data) on a sink that holds acc and accepts cap bytes in all
SinkWrite(acc, cap, data) ==
    [out |-> acc \o Take(data, Accepted(Len(acc), cap, Len(data))),
     n |-> Accepted(Len(acc), cap, Len(data)),
     err |-> IF Accepted(Len(acc), cap, Len(data)) < Len(data) THEN "ErrSink" ELSE "nil"]

RECURSIVE ioCopyFrom(_, _, _, _, _)
\* io.Copy after one Read returned rd and the Write of its bytes returned wr
ioCopyNext(os, cap, written, rd, wr) ==
    IF Len(rd.data) > 0 /\ wr.err # "nil"
    THEN [out |-> wr.out, n |-> written + wr.n, err |-> wr.err, r |-> rd.r]
    ELSE IF rd.err # "nil"
         THEN [out |-> wr.out, n |-> written + wr.n,
               err |-> IF rd.err = "EOF" THEN "nil" ELSE rd.err, r |-> rd.r]
         ELSE ioCopyFrom(rd.r, os, wr.out, cap, written + wr.n)

ioCopyWrite(os, acc, cap, written, rd) ==
    ioCopyNext(os, cap, written, rd, SinkWrite(acc, cap, rd.data))

\* io.Copy(w, src): read with the copy buffer, write what was read, until
\* the first error; written counts the bytes the sink accepted
ioCopyFrom(src, os, acc, cap, written) ==
    ioCopyWrite(os, acc, cap, written, Read(src, os, copyBufSize))

ioCopy(src, os, acc, cap) == ioCopyFrom(src, os, acc, cap, 0)

\* fault: the last flag decided by i == len(c.Meta), true of no block
IsLastIndexPastEnd(meta, i) == i = Len(meta) + 1

\* last := i == len(c.Meta)-1
IsLastIndex(meta, i) == i = Len(meta)

RECURSIVE WriteBlocks(_, _, _, _, _)
\* fault: the count of a failed Write of a block left out of the total
WriteBlocksNextDropPartial(meta, i, cap, n, wr) ==
    IF wr.err # "nil"
    THEN [out |-> wr.out, n |-> n, err |-> wr.err]
    ELSE WriteBlocks(meta, i + 1, wr.out, cap, n + wr.n)

\* the loop of WriteTo after the Write of block i returned wr
WriteBlocksNext(meta, i, cap, n, wr) ==
    IF wr.err # "nil"
    THEN [out |-> wr.out, n |-> n + wr.n, err |-> wr.err]
    ELSE WriteBlocks(meta, i + 1, wr.out, cap, n + wr.n)

\* the loop over c.Meta of WriteTo, from block i on, n bytes written so far
WriteBlocks(meta, i, acc, cap, n) ==
    IF i > Len(meta)
    THEN [out |-> acc, n |-> n, err |-> "nil"]
    ELSE WriteBlocksNext(meta, i, cap, n,
                         SinkWrite(acc, cap, Marshal(meta[i], IsLastIndex(meta, i))))

\* fault: WriteTo without the deferred poisoning of c.Frames
WriteToFramesKeepReader(frames, os, n, cp) ==
    [out |-> cp.out, n |-> n + cp.n, err |-> cp.err,
     frames |-> cp.r, open |-> Close(frames, os.open)]

\* WriteTo after io.Copy returned cp: the deferred Close and ErrorReader
WriteToFrames(frames, os, n, cp) ==
    [out |-> cp.out, n |-> n + cp.n, err |-> cp.err,
     frames |-> ErrorReader("ErrorAlreadyWritten"), open |-> Close(frames, os.open)]

\* WriteTo after the loop over the blocks returned blocks
WriteToBlocks(frames, os, cap, blocks) ==
    IF blocks.err # "nil"
    THEN [out |-> blocks.out, n |-> blocks.n, err |-> blocks.err,
          frames |-> frames, open |-> os.open]
    ELSE IF frames.kind # "nil"
         THEN WriteToFrames(frames, os, blocks.n, ioCopy(frames, os, blocks.out, cap))
         ELSE [out |-> blocks.out, n |-> blocks.n, err |-> "nil",
               frames |-> frames, open |-> os.open]

\* WriteTo after the Write of the magic returned head
WriteToMagic(meta, frames, os, cap, head) ==
    IF head.err # "nil"
    THEN [out |-> head.out, n |-> head.n, err |-> head.err,
          frames |-> frames, open |-> os.open]
    ELSE WriteToBlocks(frames, os, cap, WriteBlocks(meta, 1, head.out, cap, head.n))

\* File.WriteTo(w) on a sink that accepts cap bytes: the bytes the sink
\* holds, the count and the error returned, c.Frames and the descriptors after
WriteTo(meta, frames, os, cap) ==
    WriteToMagic(meta, frames, os, cap, SinkWrite(<<>>, cap, Magic))

(***************************************************************************)
(* The storage: paths and the objects they resolve to.  "link" is a second *)
(* name (symbolic or hard link) of the object of "a"; "new" names an       *)
(* object that exists only once a Save has created it.                     *)
(***************************************************************************)
Paths == {"a", "link", "b", "new"}

Resolve(p) ==
    CASE p = "a" -> "X"
      [] p = "link" -> "X"
      [] p = "b" -> "Y"
      [] p = "new" -> "Z"

\* os.Stat(fn) succeeds
Exists(store, p) == Resolve(p) \in DOMAIN store

\* os.Create(fn): the object of fn, created or truncated to no bytes
Create(store, p) ==
    [o \in DOMAIN store \cup {Resolve(p)} |-> IF o = Resolve(p) THEN <<>> ELSE store[o]]

\* fault: the guard compares the path strings instead of the objects
SameFileByName(store, fileIn, p) == Exists(store, p) /\ p = fileIn.name

\* fault: the guard takes any existing destination for the input file
SameFileIfExists(store, fileIn, p) == Exists(store, p)

\* os.SameFile(fileInInfo, fileOutInfo) after os.Stat(fn): fn exists and is
\* the storage object the input file is open on
SameFile(store, fileIn, p) == Exists(store, p) /\ Resolve(p) = fileIn.obj

\* the bytes of one object replaced
Store(store, obj, content) == [store EXCEPT ![obj] = content]

(***************************************************************************)
(* Random-access file operations of the in-place engine, on the bytes of   *)
(* one storage object.                                                     *)
(***************************************************************************)
Zeros(n) == [k \in 1..n |-> 0]

\* file.Truncate(size): cut, or extend with zero bytes
Truncate(content, size) ==
    IF size <= Len(content)
    THEN SubSeq(content, 1, size)
    ELSE content \o Zeros(size - Len(content))

\* file.ReadAt(buf, pos) with len(buf) = size: buf afterwards and the error
ReadAt(content, pos, size) ==
    LET n == IF pos >= Len(content) THEN 0 ELSE Min(size, Len(content) - pos)
    IN  [buf |-> SubSeq(content, pos + 1, pos + n) \o Zeros(size - n),
         err |-> IF n < size THEN "EOF" ELSE "nil"]

\* file.WriteAt(buf, pos): the bytes of the object afterwards
WriteAt(content, pos, buf) ==
    LET base == IF Len(content) < pos THEN Truncate(content, pos) ELSE content
    IN  SubSeq(base, 1, pos) \o buf \o SubSeq(base, pos + Len(buf) + 1, Len(base))

(***************************************************************************)
(* The in-place engine, saveInPlace.                                       *)
(***************************************************************************)
\* the locals of saveInPlace outside a call
NoSave == [obj |-> "none", fd |-> 0, originalHeaderSize |-> 0, newMetaBuf |-> <<>>,
           newHeaderSize |-> 0, totalSize |-> 0, audioDataSize |-> 0, delta |-> 0, i |-> 0]

\* fault: the last chunk of the grow loop not shortened to the bytes that remain
GrowChunkNoClamp(content, c, i, bs) ==
    LET offset == c.audioDataSize - i - bs
        readOffset == IF offset < 0 THEN 0 ELSE offset
        readPos == c.originalHeaderSize + readOffset
        writePos == readPos + c.delta
        rd == ReadAt(content, readPos, bs)
    IN  IF rd.err # "nil"
        THEN [content |-> content, err |-> "read error during data shift"]
        ELSE [content |-> WriteAt(content, writePos, rd.buf), err |-> "nil"]

\* fault: the grow loop copying from start to end
GrowChunkForward(content, c, i, bs) ==
    LET chunkSize == Min(bs, c.audioDataSize - i)
        readPos == c.originalHeaderSize + i
        writePos == readPos + c.delta
        rd == ReadAt(content, readPos, chunkSize)
    IN  IF rd.err # "nil"
        THEN [content |-> content, err |-> "read error during data shift"]
        ELSE [content |-> WriteAt(content, writePos, rd.buf), err |-> "nil"]

\* one pass of the end-to-start loop of saveInPlace (delta > 0), for loop
\* counter i and chunk size bs: the bytes of the file afterwards
GrowChunk(content, c, i, bs) ==
    LET offset == c.audioDataSize - i - bs
        chunkSize == IF offset < 0 THEN bs + offset ELSE bs
        readOffset == IF offset < 0 THEN 0 ELSE offset
        readPos == c.originalHeaderSize + readOffset
        writePos == readPos + c.delta
        rd == ReadAt(content, readPos, chunkSize)
    IN  IF rd.err # "nil"
        THEN [content |-> content, err |-> "read error during data shift"]
        ELSE [content |-> WriteAt(content, writePos, rd.buf), err |-> "nil"]

\* fault: the file cut behind every chunk written, inside the loop
ShrinkChunkTruncating(content, c, i, bs) ==
    LET readPos == c.originalHeaderSize + i
        writePos == readPos + c.delta
        chunkSize == IF readPos + bs > c.totalSize THEN c.totalSize - readPos ELSE bs
        rd == ReadAt(content, readPos, chunkSize)
    IN  IF chunkSize <= 0
        THEN [content |-> content, err |-> "break"]
        ELSE [content |-> Truncate(WriteAt(content, writePos, rd.buf), writePos + chunkSize),
              err |-> "nil"]

\* fault: the shrink loop writing at readPos - delta
ShrinkChunkWrongSign(content, c, i, bs) ==
    LET readPos == c.originalHeaderSize + i
        writePos == readPos - c.delta
        chunkSize == IF readPos + bs > c.totalSize THEN c.totalSize - readPos ELSE bs
        rd == ReadAt(content, readPos, chunkSize)
    IN  IF chunkSize <= 0
        THEN [content |-> content, err |-> "break"]
        ELSE [content |-> WriteAt(content, writePos, rd.buf), err |-> "nil"]

\* one pass of the start-to-end loop of saveInPlace (delta < 0)
ShrinkChunk(content, c, i, bs) ==
    LET readPos == c.originalHeaderSize + i
        writePos == readPos + c.delta
        chunkSize == IF readPos + bs > c.totalSize THEN c.totalSize - readPos ELSE bs
        rd == ReadAt(content, readPos, chunkSize)
    IN  IF chunkSize <= 0
        THEN [content |-> content, err |-> "break"]
        ELSE [content |-> WriteAt(content, writePos, rd.buf), err |-> "nil"]

\* fault: the new header measured without the four bytes of the magic
SaveLocalsNoMagic(fileIn, fd, originalHeaderSize, written, totalSize) ==
    [obj |-> Resolve(fileIn.name), fd |-> fd, originalHeaderSize |-> originalHeaderSize,
     newMetaBuf |-> written.out, newHeaderSize |-> written.n - 4,
     totalSize |-> totalSize, audioDataSize |-> totalSize - originalHeaderSize,
     delta |-> written.n - 4 - originalHeaderSize, i |-> 0]

\* the locals of saveInPlace once the header sizes and the file size are known
SaveLocals(fileIn, fd, originalHeaderSize, written, totalSize) ==
    [obj |-> Resolve(fileIn.name), fd |-> fd, originalHeaderSize |-> originalHeaderSize,
     newMetaBuf |-> written.out, newHeaderSize |-> written.n,
     totalSize |-> totalSize, audioDataSize |-> totalSize - originalHeaderSize,
     delta |-> written.n - originalHeaderSize, i |-> 0]

\* saveInPlace from c.Frames = nil to the guard on the audio size
saveInPlaceMeasure(os, c, written) ==
    IF written.err # "nil"
    THEN [err |-> written.err, c |-> NoSave, frames |-> NilReader, open |-> os.open]
    ELSE IF c.audioDataSize < 0
         THEN [err |-> "invalid file format", c |-> NoSave, frames |-> NilReader,
               open |-> os.open]
         ELSE [err |-> "nil", c |-> c, frames |-> NilReader, open |-> os.open]

\* saveInPlace after ParseMetadata(file) returned parsed and file.Stat()
\* reported totalSize bytes
saveInPlaceStat(meta, frames, os, fileIn, fd, parsed, written, totalSize) ==
    IF parsed.err # "nil"
    THEN [err |-> "failed to parse metadata", c |-> NoSave, frames |-> frames,
          open |-> os.open]
    ELSE saveInPlaceMeasure(os, SaveLocals(fileIn, fd, parsed.r.off, written, totalSize),
                            written)

\* saveInPlace after ParseMetadata(file) returned parsed, the file untouched
\* by others between the parse and file.Stat()
saveInPlaceParsed(meta, frames, os, fileIn, fd, parsed, written) ==
    saveInPlaceStat(meta, frames, os, fileIn, fd, parsed, written,
                    Len(os.fs[Resolve(fileIn.name)]))

\* saveInPlace after c.Close() and os.OpenFile left the descriptors of os open
saveInPlaceReopened(meta, frames, os, fileIn, fd) ==
    saveInPlaceParsed(meta, frames, os, fileIn, fd,
                      ParseMetadata(OsFile(fileIn.name, Resolve(fileIn.name), fd), os),
                      WriteTo(meta, NilReader, os, NoLimit))

\* the checks and measurements of saveInPlace before it changes the file
saveInPlaceBegin(meta, frames, os, fileIn, fd) ==
    saveInPlaceReopened(meta, frames,
                        [fs |-> os.fs, open |-> Close(frames, os.open) \cup {fd}],
                        fileIn, fd)

(***************************************************************************)
(* The input containers: the magic, one to MaxInitBlocks blocks of which   *)
(* only the final one carries the last flag, and a frame region that       *)
(* starts with the sync pattern.                                           *)
(***************************************************************************)
\* payload bytes that differ by position and by type
Payload(type, len) == [k \in 1..len |-> 10 * (type + 1) + k]

\* a frame region: the two sync bytes and tail further bytes, all different
FrameRegion(tail) == <<255, 248>> \o [k \in 1..tail |-> 100 + k]

\* a block on the wire: flag bit and type, 24-bit length, payload
WireBlock(flag, type, data) ==
    << flag * 128 + type, Len(data) \div 65536, (Len(data) \div 256) % 256, Len(data) % 256 >>
        \o data

\* the blocks of an input: a StreamInfo block, then VorbisComment blocks of
\* one byte
InputBlocks(n, len) ==
    [i \in 1..n |-> IF i = 1 THEN MetaDataBlock(StreamInfo, Payload(StreamInfo, len))
                    ELSE MetaDataBlock(VorbisComment, Payload(VorbisComment, 1))]

RECURSIVE WireBlocks(_, _)
\* the blocks from index i on, on the wire: only the final one is flagged
WireBlocks(blocks, i) ==
    IF i > Len(blocks) THEN <<>>
    ELSE WireBlock(IF i = Len(blocks) THEN 1 ELSE 0, blocks[i].Type, blocks[i].Data)
            \o WireBlocks(blocks, i + 1)

Container(blocks, tail) == Magic \o WireBlocks(blocks, 1) \o FrameRegion(tail)

\* the lengths of the frame region after its sync code: none, and the longest
AudioTails == {0, MaxAudioTail}

\* the payload lengths of a block built from scratch: empty, and the longest
FreshLens == {0, MaxPayload}

Containers ==
    { Container(InputBlocks(1, len), t) : len \in FreshLens, t \in AudioTails }
    \cup
    { Container(InputBlocks(n, MaxPayload), t) : n \in 2..MaxInitBlocks, t \in AudioTails }

(***************************************************************************)
(* State.                                                                  *)
(***************************************************************************)
VARIABLES
    input,      \* the container bytes given to ParseBytes and first stored at "a"
    fs,         \* storage object -> its bytes
    openFds,    \* the open file descriptors
    Meta,       \* File.Meta
    Frames,     \* File.Frames
    file,       \* where the File came from, and whether Meta was edited since
    out,        \* the bytes the sink of the last WriteTo accepted
    last,       \* the last library call and what it returned
    pre,        \* the storage when the last library call began
    pc,         \* position inside saveInPlace, "idle" outside
    sv,         \* the locals of saveInPlace
    ops,        \* library calls made
    edits,      \* edits of Meta made
    info        \* what the last GetStreamInfo returned

vars ==
    <<input, fs, openFds, Meta, Frames, file, out, last, pre, pc, sv, ops, edits, info>>

OS == [fs |-> fs, open |-> openFds]

\* the history of the File: the path (or "bytes") it was parsed from, the
\* descriptor ParseFile opened, the edit made (and the serialized size of a
\* removed block), whether a WriteTo streamed its frames to the end, whether
\* an in-place Save succeeded
History(src, fd) ==
    [src |-> src, fd |-> fd, edit |-> "none", removed |-> 0,
     streamed |-> FALSE, inplace |-> FALSE]
NoFile == History("none", 0)

\* the record of a finished call
Ret(op, err, n, path, mode, frames0) ==
    [op |-> op, err |-> err, n |-> n, path |-> path, mode |-> mode, frames0 |-> frames0]

\* no StreamInfoBlock returned
NoInfo == [res |-> "nil", err |-> "none"]

\* the state before the first call, whatever the input
Start ==
    /\ fs = [o \in {"X", "Y"} |-> IF o = "X" THEN input ELSE <<9, 9>>]
    /\ openFds = {}
    /\ Meta = <<>>
    /\ Frames = NilReader
    /\ file = NoFile
    /\ out = <<>>
    /\ last = Ret("none", "nil", 0, "none", "none", "nil")
    /\ pre = fs
    /\ pc = "idle"
    /\ sv = NoSave
    /\ ops = 0
    /\ edits = 0
    /\ info = NoInfo

Init ==
    /\ input \in Containers
    /\ Start

\* a descriptor no earlier call was given
NewFd == ops + 3

CanCall == pc = "idle" /\ ops < MaxOps

\* f, err := ParseBytes(bytes.NewReader(input))
CallParseBytes ==
    /\ CanCall
    /\ file.src = "none"
    /\ \E res \in {ParseBytes(BytesReader(input), OS)} :
           /\ Meta' = res.meta
           /\ Frames' = res.frames
           /\ file' = IF res.err = "nil" THEN History("bytes", 0)
                      ELSE NoFile
           /\ last' = Ret("ParseBytes", res.err, 0, "none", "none", Frames.kind)
    /\ pre' = fs
    /\ ops' = ops + 1
    /\ UNCHANGED <<input, fs, openFds, out, pc, sv, edits, info>>

\* f, err := ParseFile(p)
CallParseFile(p) ==
    /\ CanCall
    /\ file.src = "none"
    /\ IF ~Exists(fs, p)
       THEN /\ Meta' = <<>>
            /\ Frames' = NilReader
            /\ file' = NoFile
            /\ openFds' = openFds
            /\ last' = Ret("ParseFile", "ErrNotExist", 0, p, "none", Frames.kind)
       ELSE \E res \in {ParseBytes(NewBufIOWithInner(OsFile(p, Resolve(p), NewFd)),
                                    [fs |-> fs, open |-> openFds \cup {NewFd}])} :
                /\ Meta' = res.meta
                /\ Frames' = res.frames
                /\ file' = IF res.err = "nil" THEN History(p, NewFd)
                           ELSE NoFile
                /\ openFds' = openFds \cup {NewFd}
                /\ last' = Ret("ParseFile", res.err, 0, p, "none", Frames.kind)
    /\ pre' = fs
    /\ ops' = ops + 1
    /\ UNCHANGED <<input, fs, out, pc, sv, edits, info>>

\* the caller edits Meta between parsing and writing
CanEdit ==
    /\ pc = "idle"
    /\ file.src # "none"
    /\ last.op \in {"ParseBytes", "ParseFile"}
    /\ edits < MaxEdits

\* the record of the edits made since the parse: their kind while they are all
\* of one kind, "mixed" otherwise
Edited(kind) == IF file.edit \in {"none", kind} THEN kind ELSE "mixed"

\* file.Meta = append(file.Meta, &MetaDataBlock{Type: Padding, Data: ...})
AppendBlock(len) ==
    /\ CanEdit
    /\ Meta' = Append(Meta, MetaDataBlock(Padding, Payload(Padding, len)))
    /\ file' = [file EXCEPT !.edit = Edited("append")]
    /\ edits' = edits + 1
    /\ UNCHANGED <<input, fs, openFds, Frames, out, last, pre, pc, sv, ops, info>>

\* file.Meta = append(file.Meta[:i], file.Meta[i+1:]...)
RemoveBlock(i) ==
    /\ CanEdit
    /\ i \in 1..Len(Meta)
    /\ Meta' = SubSeq(Meta, 1, i - 1) \o SubSeq(Meta, i + 1, Len(Meta))
    /\ file' = [file EXCEPT !.edit = Edited("remove"),
                            !.removed = file.removed + 4 + Len(Meta[i].Data)]
    /\ edits' = edits + 1
    /\ UNCHANGED <<input, fs, openFds, Frames, out, last, pre, pc, sv, ops, info>>

\* file.Meta[i].Data = ... of another length
SetData(i, len) ==
    /\ CanEdit
    /\ i \in 1..Len(Meta)
    /\ len # Len(Meta[i].Data)
    /\ Meta' = [Meta EXCEPT ![i] = MetaDataBlock(Meta[i].Type, Payload(Meta[i].Type, len))]
    /\ file' = [file EXCEPT !.edit = Edited("setdata")]
    /\ edits' = edits + 1
    /\ UNCHANGED <<input, fs, openFds, Frames, out, last, pre, pc, sv, ops, info>>

\* the serialized length of magic and metadata
HeaderSize(meta) == WriteTo(meta, NilReader, OS, NoLimit).n

\* the sinks tried: one that accepts everything, ones that fail inside the
\* magic, inside the blocks and inside the frames, and one that fails once
\* inside the first block and would accept whatever came next
SinkLimits(meta) == {NoLimit, 2, 6, HeaderSize(meta) + 1, -6}

\* n, err := f.WriteTo(w)
CallWriteTo(cap) ==
    /\ CanCall
    /\ file.src # "none"
    /\ \E res \in {WriteTo(Meta, Frames, OS, cap)} :
           /\ Frames' = res.frames
           /\ openFds' = res.open
           /\ out' = res.out
           /\ last' = Ret("WriteTo", res.err, res.n, "none",
                          IF cap = NoLimit THEN "sink" ELSE "limited sink", Frames.kind)
           /\ file' = IF res.err = "nil" /\ Frames.kind = "prefix"
                      THEN [file EXCEPT !.streamed = TRUE] ELSE file
    /\ pre' = fs
    /\ ops' = ops + 1
    /\ UNCHANGED <<input, fs, Meta, pc, sv, edits, info>>

\* err := f.Close()
CallClose ==
    /\ CanCall
    /\ file.src # "none"
    /\ openFds' = Close(Frames, openFds)
    /\ last' = Ret("Close", "nil", 0, "none", "none", Frames.kind)
    /\ pre' = fs
    /\ ops' = ops + 1
    /\ UNCHANGED <<input, fs, Meta, Frames, file, out, pc, sv, edits, info>>

(***************************************************************************)
(* File.Save.                                                              *)
(***************************************************************************)
\* the ordinary path of Save: os.Create(fn), WriteTo(f), f.Close()
SaveOrdinary(p) ==
    \E res \in {WriteTo(Meta, Frames,
                         [fs |-> Create(fs, p), open |-> openFds \cup {NewFd}], NoLimit)} :
        /\ fs' = Store(Create(fs, p), Resolve(p), res.out)
        /\ Frames' = res.frames
        /\ openFds' = res.open \ {NewFd}
        /\ last' = Ret("Save", res.err, res.n, p, "ordinary", Frames.kind)
        /\ UNCHANGED <<pc, sv>>

\* Save found the destination to be the input file: saveInPlace up to its
\* first change of the file (the extension of the file when delta > 0)
SaveInPlaceStart(p, fileIn) ==
    \E b \in {saveInPlaceBegin(Meta, Frames, OS, fileIn, NewFd)} :
        /\ Frames' = b.frames
        /\ openFds' = b.open
        /\ IF b.err # "nil"
           THEN /\ last' = Ret("Save", b.err, 0, p, "inplace", Frames.kind)
                /\ UNCHANGED <<fs, pc, sv>>
           ELSE /\ last' = Ret("Save", "running", 0, p, "inplace", Frames.kind)
                /\ sv' = b.c
                /\ IF b.c.delta > 0
                   THEN /\ fs' = Store(fs, b.c.obj,
                                       Truncate(fs[b.c.obj], b.c.totalSize + b.c.delta))
                        /\ pc' = IF b.c.audioDataSize > 0 THEN "grow" ELSE "header"
                   ELSE /\ fs' = fs
                        /\ pc' = IF b.c.delta < 0
                                 THEN (IF b.c.audioDataSize > 0 THEN "shrink" ELSE "truncate")
                                 ELSE "header"

\* err := f.Save(p)
CallSave(p) ==
    /\ CanCall
    /\ file.src # "none"
    /\ \E fileIn \in {isFileBacked(Frames)} :
           IF fileIn.kind = "file"
           THEN IF fileIn.fd \notin openFds
                THEN /\ last' = Ret("Save", "failed to get input file info", 0, p, "none",
                                    Frames.kind)
                     /\ UNCHANGED <<fs, openFds, Frames, pc, sv>>
                ELSE IF SameFile(fs, fileIn, p)
                     THEN SaveInPlaceStart(p, fileIn)
                     ELSE SaveOrdinary(p)
           ELSE SaveOrdinary(p)
    /\ pre' = fs
    /\ ops' = ops + 1
    /\ UNCHANGED <<input, Meta, file, out, edits, info>>

\* saveInPlace, delta > 0: one chunk moved, from the end toward the start
SaveInPlaceGrow ==
    /\ pc = "grow"
    /\ \E res \in {GrowChunk(fs[sv.obj], sv, sv.i, bufferSize)} :
           IF res.err # "nil"
           THEN /\ last' = [last EXCEPT !.err = res.err]
                /\ pc' = "idle"
                /\ sv' = NoSave
                /\ fs' = fs
           ELSE /\ fs' = Store(fs, sv.obj, res.content)
                /\ sv' = [sv EXCEPT !.i = sv.i + bufferSize]
                /\ pc' = IF sv.i + bufferSize < sv.audioDataSize THEN "grow" ELSE "header"
                /\ last' = last
    /\ UNCHANGED <<input, openFds, Meta, Frames, file, out, pre, ops, edits, info>>

\* saveInPlace, delta < 0: one chunk moved, from the start toward the end
SaveInPlaceShrink ==
    /\ pc = "shrink"
    /\ \E res \in {ShrinkChunk(fs[sv.obj], sv, sv.i, bufferSize)} :
           /\ fs' = Store(fs, sv.obj, res.content)
           /\ sv' = [sv EXCEPT !.i = sv.i + bufferSize]
           /\ pc' = IF res.err = "nil" /\ sv.i + bufferSize < sv.audioDataSize
                    THEN "shrink" ELSE "truncate"
    /\ UNCHANGED <<input, openFds, Meta, Frames, file, out, last, pre, ops, edits, info>>

\* saveInPlace, delta < 0: file.Truncate(totalSize + delta) after the loop
SaveInPlaceTruncate ==
    /\ pc = "truncate"
    /\ fs' = Store(fs, sv.obj, Truncate(fs[sv.obj], sv.totalSize + sv.delta))
    /\ pc' = "header"
    /\ UNCHANGED <<input, openFds, Meta, Frames, file, out, last, pre, sv, ops, edits, info>>

\* saveInPlace: file.WriteAt(newMetaBuf.Bytes(), 0) and file.Close()
SaveInPlaceHeader ==
    /\ pc = "header"
    /\ fs' = Store(fs, sv.obj, WriteAt(fs[sv.obj], 0, sv.newMetaBuf))
    /\ openFds' = openFds \ {sv.fd}
    /\ last' = [last EXCEPT !.err = "nil"]
    /\ file' = [file EXCEPT !.inplace = TRUE]
    /\ pc' = "idle"
    /\ sv' = NoSave
    /\ UNCHANGED <<input, Meta, Frames, out, pre, ops, edits, info>>

Next ==
    \/ CallParseBytes
    \/ \E p \in Paths \ {"link"} : CallParseFile(p)
    \/ \E len \in FreshLens : AppendBlock(len)
    \/ \E i \in 1..MaxInitBlocks + MaxEdits : RemoveBlock(i)
    \/ \E i \in 1..MaxInitBlocks + MaxEdits, len \in 0..MaxPayload : SetData(i, len)
    \/ \E cap \in SinkLimits(Meta) : CallWriteTo(cap)
    \/ CallClose
    \/ \E p \in Paths : CallSave(p)
    \/ SaveInPlaceGrow
    \/ SaveInPlaceShrink
    \/ SaveInPlaceTruncate
    \/ SaveInPlaceHeader

Spec == Init /\ [][Next]_vars

(***************************************************************************)
(* Decoding runs: ParseMetadata, ParseBytes, reads of File.Frames and      *)
(* GetStreamInfo on well-formed and malformed inputs, and WriteTo of a     *)
(* block too long for its length field.                                    *)
(***************************************************************************)
\* a StreamInfo payload that encodes 1152/1152/1650/6130/96000/2/24/3828096
SamplePayload ==
    <<4, 128, 4, 128, 0, 6, 114, 0, 23, 242, 23, 112, 3, 112, 0, 58, 105, 128>>
        \o [k \in 1..16 |-> 200 + k]

\* the length of a whole StreamInfo payload
StreamInfoSize == Len(SamplePayload)

\* StreamInfo payloads: the sample, all bits set, no bit set, a mixed
\* pattern, and one byte set at a time through the numeric fields
InfoPayloads ==
    { SamplePayload,
      [k \in 1..StreamInfoSize |-> 255],
      [k \in 1..StreamInfoSize |-> 0],
      [k \in 1..StreamInfoSize |-> (37 * k + 11) % 256] }
    \cup { [k \in 1..StreamInfoSize |-> IF k = i THEN 255 ELSE 0] : i \in 11..18 }
    \cup { [k \in 1..StreamInfoSize |-> IF k = i THEN 165 ELSE 90] : i \in 11..18 }

\* every payload cut short
ShortPayloads ==
    { Take(p, n) : n \in 0..(StreamInfoSize - 1),
                   p \in {SamplePayload, [k \in 1..StreamInfoSize |-> 255]} }

\* the first two bytes of the frame region: sync codes and near misses
SyncPairs ==
    { <<255, 248>>, <<255, 249>>, <<255, 251>>, <<255, 252>>, <<255, 247>>,
      <<255, 120>>, <<255, 0>>, <<254, 248>>, <<127, 248>>, <<248, 255>>, <<0, 0>> }

\* four bytes that are not the magic
BadMagics ==
    { [Magic EXCEPT ![i] = b] : i \in 1..4, b \in {0, 255} }
    \cup { <<70, 76, 65, 67>>, <<67, 97, 76, 102>>, <<102, 76, 97, 99>> }

\* the types of a first block
FirstTypes == {StreamInfo, Padding, VorbisComment, 126, 127}

\* magic, blocks, then pair and tail further bytes
Stream(blocks, pair, tail) ==
    Magic \o WireBlocks(blocks, 1) \o pair \o [k \in 1..tail |-> 100 + k]

\* the inputs of the decoding runs
ParseInputs ==
    \* whole containers with every payload and first type
    { Stream(<<MetaDataBlock(t, p)>>, <<255, 248>>, 1) :
        t \in {StreamInfo, Padding}, p \in InfoPayloads \cup ShortPayloads }
    \cup
    { Stream(<<MetaDataBlock(t, Payload(StreamInfo, MaxPayload))>>, pair, tail) :
        t \in FirstTypes, pair \in SyncPairs, tail \in AudioTails }
    \cup
    \* another magic in front of a valid rest, or alone
    { bad \o Drop(c, 4) : bad \in BadMagics, c \in Containers \cup {Magic} }
    \cup
    \* a container cut anywhere
    { Take(c, n) : n \in 0..(8 + MaxPayload + 4 + 1 + 1),
                   c \in {Container(InputBlocks(2, MaxPayload), MaxAudioTail)} }
    \cup
    \* blocks none of which carries the last flag, and a flag on every block
    { Magic \o WireBlock(0, StreamInfo, Payload(StreamInfo, 1))
            \o WireBlock(0, Padding, Payload(Padding, n)) : n \in 0..MaxPayload }
    \cup
    { Magic \o WireBlock(1, StreamInfo, Payload(StreamInfo, 1))
            \o WireBlock(1, Padding, Payload(Padding, n)) \o FrameRegion(1) : n \in 0..MaxPayload }
    \cup
    { Magic \o WireBlock(1, StreamInfo, Payload(StreamInfo, n)) \o FrameRegion(MaxAudioTail)
            \o WireBlock(1, Padding, <<>>) : n \in 0..MaxPayload }

ParseInit ==
    /\ input \in ParseInputs
    /\ Start

\* f, err := ParseMetadata(bytes.NewReader(input)); last.n records the offset
\* the reader is left at
CallParseMetadata ==
    /\ CanCall
    /\ file.src = "none"
    /\ \E res \in {ParseMetadata(BytesReader(input), OS)} :
           /\ Meta' = res.meta
           /\ file' = IF res.err = "nil" THEN History("bytes", 0) ELSE NoFile
           /\ last' = Ret("ParseMetadata", res.err, res.r.off, "none", "none", Frames.kind)
    /\ Frames' = NilReader
    /\ pre' = fs
    /\ ops' = ops + 1
    /\ UNCHANGED <<input, fs, openFds, out, pc, sv, edits, info>>

\* n, err := f.Frames.Read(p) with len(p) = k, the bytes appended to out
ReadFrames(k) ==
    /\ pc = "idle"
    /\ file.src = "bytes"
    /\ Frames.kind = "prefix"
    /\ last.op \in {"ParseBytes", "Read"}
    /\ last.err = "nil"
    /\ \E res \in {Read(Frames, OS, k)} :
           /\ Frames' = res.r
           /\ out' = out \o res.data
           /\ last' = Ret("Read", res.err, Len(res.data), "none", "none", Frames.kind)
    /\ UNCHANGED <<input, fs, openFds, Meta, file, pre, pc, sv, ops, edits, info>>

\* info, err := f.GetStreamInfo()
CallGetStreamInfo ==
    /\ CanCall
    /\ file.src # "none"
    /\ last.op \in {"ParseBytes", "ParseMetadata"}
    /\ \E res \in {GetStreamInfo(Meta)} :
           /\ info' = res
           /\ last' = Ret("GetStreamInfo", res.err, 0, "none", "none", Frames.kind)
    /\ pre' = fs
    /\ ops' = ops + 1
    /\ UNCHANGED <<input, fs, openFds, Meta, Frames, file, out, pc, sv, edits>>

\* payload lengths around the largest a 24-bit length field can hold
LongLens == {Pow2(24) - 2, Pow2(24) - 1, Pow2(24), Pow2(24) + 1, Pow2(24) + 258}

\* n, err := f.WriteTo(w) for File{Meta: one StreamInfo block of len payload
\* bytes} and a sink that accepts everything: out keeps the magic and the
\* block header, last.n counts the payload bytes too
CallWriteToLong(len) ==
    /\ CanCall
    /\ last.op = "none"
    /\ out' = Magic \o MarshalHeader(StreamInfo, len, IsLastIndex(<<len>>, 1))
    /\ last' = Ret("WriteTo", "nil", 4 + 4 + len, "none", "long block", Frames.kind)
    /\ file' = History("long block", 0)
    /\ pre' = fs
    /\ ops' = ops + 1
    /\ UNCHANGED <<input, fs, openFds, Meta, Frames, pc, sv, edits, info>>

ParseNext ==
    \/ CallParseMetadata
    \/ CallParseBytes
    \/ \E k \in 0..MaxReadBuf : ReadFrames(k)
    \/ \E i \in 1..MaxInitBlocks : RemoveBlock(i)
    \/ CallGetStreamInfo
    \/ \E len \in LongLens : CallWriteToLong(len)

ParseSpec == ParseInit /\ [][ParseNext]_vars

(***************************************************************************)
(* The container format, as the properties below read it: where the frame  *)
(* region of a container starts, and what a metadata sequence looks like   *)
(* on the wire.                                                            *)
(***************************************************************************)
RECURSIVE FrameStartFrom(_, _)
FrameStartFrom(bytes, pos) ==
    IF pos + 4 > Len(bytes) THEN Len(bytes)
    ELSE IF bytes[pos + 1] >= 128
         THEN pos + 4 + bytes[pos + 2] * 65536 + bytes[pos + 3] * 256 + bytes[pos + 4]
         ELSE FrameStartFrom(bytes,
                pos + 4 + bytes[pos + 2] * 65536 + bytes[pos + 3] * 256 + bytes[pos + 4])

\* the offset of the first byte after the first block that carries the last flag
FrameStart(bytes) == FrameStartFrom(bytes, 4)

\* the frame region of a container
AudioOf(bytes) == SubSeq(bytes, FrameStart(bytes) + 1, Len(bytes))

\* magic and metadata on the wire, the last flag on the final block only
Serialized(meta) == Magic \o WireBlocks(meta, 1)

RECURSIVE FlagsFrom(_, _, _)
\* the last-flag bits of the first n block headers found in bytes from pos on
FlagsFrom(bytes, pos, n) ==
    IF n = 0 \/ pos + 4 > Len(bytes) THEN <<>>
    ELSE <<bytes[pos + 1] \div 128>>
            \o FlagsFrom(bytes,
                 pos + 4 + bytes[pos + 2] * 65536 + bytes[pos + 3] * 256 + bytes[pos + 4], n - 1)

\* the object a path of the last call named
LastObj == Resolve(last.path)

\* the last call was a Save that took the in-place path and returned nil
InPlaceDone ==
    /\ pc = "idle"
    /\ last.op = "Save"
    /\ last.mode = "inplace"
    /\ last.err = "nil"

\* the last call was a WriteTo of a freshly parsed, unedited File that returned nil
RoundTripDone ==
    /\ last.op = "WriteTo"
    /\ last.err = "nil"
    /\ last.frames0 = "prefix"
    /\ file.edit = "none"

(***************************************************************************)
(* C1. Round trip: ParseBytes of a valid container followed by WriteTo     *)
(* with no edit hands the sink exactly the bytes that were parsed (the     *)
(* input of ParseBytes, or the bytes of the file ParseFile read).          *)
(***************************************************************************)
C1_RoundTrip ==
    RoundTripDone =>
        out = (IF file.src = "bytes" THEN input ELSE fs[Resolve(file.src)])

C1_Witness ==
    /\ RoundTripDone
    /\ file.src = "bytes"
    /\ Len(Meta) = MaxInitBlocks
    /\ Len(input) = Len(Serialized(Meta)) + 2 + MaxAudioTail
    /\ out = input

(***************************************************************************)
(* C2. In-place growth: when the metadata serializes to more bytes than    *)
(* the header on disk, a successful in-place Save leaves the file equal to *)
(* the new magic and metadata followed by the frame bytes the file held    *)
(* before the Save.                                                        *)
(***************************************************************************)
C2_InPlaceGrowth ==
    (InPlaceDone /\ Len(Serialized(Meta)) > FrameStart(pre[LastObj])) =>
        fs[LastObj] = Serialized(Meta) \o AudioOf(pre[LastObj])

\* a growth by less than a chunk of a frame region of more than two chunks
C2_Witness ==
    /\ InPlaceDone
    /\ Len(Serialized(Meta)) - FrameStart(pre[LastObj]) \in 1..(bufferSize - 1)
    /\ Len(AudioOf(pre[LastObj])) > 2 * bufferSize
    /\ fs[LastObj] = Serialized(Meta) \o AudioOf(pre[LastObj])

(***************************************************************************)
(* C3. In-place shrink: after a block was removed, a successful in-place   *)
(* Save leaves the new magic and metadata followed by the unchanged frame  *)
(* bytes, and the file is shorter by 4 + the removed block's payload       *)
(* length.                                                                 *)
(***************************************************************************)
C3_InPlaceShrink ==
    (InPlaceDone /\ file.edit = "remove") =>
        /\ fs[LastObj] = Serialized(Meta) \o AudioOf(pre[LastObj])
        /\ Len(fs[LastObj]) = Len(pre[LastObj]) - file.removed

\* the first of two blocks removed, a frame region of more than two chunks
C3_Witness ==
    /\ InPlaceDone
    /\ file.edit = "remove"
    /\ file.removed = 4 + MaxPayload
    /\ Len(AudioOf(pre[LastObj])) > 2 * bufferSize
    /\ Len(fs[LastObj]) = Len(pre[LastObj]) - file.removed

SaveFileBacked ==
    /\ last.op = "Save"
    /\ last.frames0 = "prefix"
    /\ file.src \in Paths

\* ... and the destination is the storage object of that file
SaveSameObject == SaveFileBacked /\ Resolve(last.path) = Resolve(file.src)

\* the frame bytes the File had to give when the last call began
FrameStream ==
    IF last.frames0 # "prefix" THEN <<>>
    ELSE IF file.src = "bytes" THEN AudioOf(input)
         ELSE AudioOf(pre[Resolve(file.src)])

C6_OrdinarySave ==
    (last.op = "Save" /\ ~SaveSameObject) =>
        /\ last.mode = "ordinary"
        /\ last.err = "nil" => fs[LastObj] = Serialized(Meta) \o FrameStream
        /\ SaveFileBacked => fs[Resolve(file.src)] = pre[Resolve(file.src)]

\* an edited File parsed from "a" saved over the existing other file "b"
C6_Witness ==
    /\ SaveFileBacked
    /\ file.src = "a"
    /\ last.path = "b"
    /\ last.mode = "ordinary"
    /\ last.err = "nil"
    /\ file.edit = "append"
    /\ fs["Y"] = Serialized(Meta) \o AudioOf(input)
    /\ fs["X"] = input

(***************************************************************************)
(* C7. Once a WriteTo has streamed the frame source to its end, no later   *)
(* WriteTo on the File (nor the WriteTo inside a later Save) returns nil:  *)
(* it returns ErrorAlreadyWritten, or the sink's own error when the sink   *)
(* rejects the magic or the metadata first.                                *)
(***************************************************************************)
C7_AlreadyWritten ==
    [][(file.streamed /\ ops' = ops + 1 /\ last'.op \in {"WriteTo", "Save"}) =>
          /\ last'.err # "nil"
          /\ last'.mode # "limited sink" => last'.err = "ErrorAlreadyWritten"]_vars

C7_Witness ==
    /\ file.streamed
    /\ last.op = "WriteTo"
    /\ last.frames0 = "error"
    /\ last.mode = "sink"
    /\ last.err = "ErrorAlreadyWritten"

(***************************************************************************)
(* C8. After a successful in-place Save, every further WriteTo or Save on  *)
(* the same File returns an error.                                         *)
(***************************************************************************)
C8_FailsAfterInPlaceSave ==
    [][(file.inplace /\ ops' = ops + 1 /\ last'.op \in {"WriteTo", "Save"}) =>
          last'.err # "nil"]_vars

(***************************************************************************)
(* C9. Last-flag correctness: whatever Meta holds (one block or more,      *)
(* after any edit), the bytes WriteTo hands the sink carry the last flag   *)
(* on the final block and on no other block.                               *)
(***************************************************************************)
C9_LastFlag ==
    (last.op = "WriteTo" /\ last.mode = "sink" /\ Len(Meta) >= 1) =>
        FlagsFrom(out, 4, Len(Meta)) = [i \in 1..Len(Meta) |-> IF i = Len(Meta) THEN 1 ELSE 0]

\* a block appended behind the block that carried the flag when parsed
C9_Witness ==
    /\ last.op = "WriteTo"
    /\ last.mode = "sink"
    /\ file.edit = "append"
    /\ Len(Meta) = MaxInitBlocks + 1
    /\ FlagsFrom(out, 4, Len(Meta)) = [i \in 1..Len(Meta) |-> IF i = Len(Meta) THEN 1 ELSE 0]

(***************************************************************************)
(* C10. Close on a File returned by ParseFile releases the descriptor      *)
(* ParseFile opened: after Close that descriptor is not open.              *)
(***************************************************************************)
C10_CloseReleasesHandle ==
    (last.op = "Close" /\ file.src \in Paths) => file.fd \notin openFds

(***************************************************************************)
(* The properties of the decoding runs.                                    *)
(***************************************************************************)
\* the last call was a parse of input
Parsed == last.op \in {"ParseMetadata", "ParseBytes"}

\* the last parse returned no File
NoFileReturned ==
    /\ Meta = <<>>
    /\ Frames = NilReader
    /\ file = NoFile

\* the offset after the block whose header starts at pos
BlockEnd(bytes, pos) ==
    pos + 4 + bytes[pos + 2] * 65536 + bytes[pos + 3] * 256 + bytes[pos + 4]

RECURSIVE MetadataCompleteFrom(_, _)
\* from pos on, bytes holds whole blocks up to and including one that carries
\* the last flag
MetadataCompleteFrom(bytes, pos) ==
    /\ pos + 4 <= Len(bytes)
    /\ BlockEnd(bytes, pos) <= Len(bytes)
    /\ \/ bytes[pos + 1] >= 128
       \/ MetadataCompleteFrom(bytes, BlockEnd(bytes, pos))

\* input starts with the magic
HasMagic == Len(input) >= 4 /\ SubSeq(input, 1, 4) = Magic

\* input is the magic and a whole metadata sequence, then anything
MetadataComplete == HasMagic /\ MetadataCompleteFrom(input, 4)

(***************************************************************************)
(* C11. For every input of at least four bytes whose first four bytes are  *)
(* not the magic, ParseMetadata and ParseBytes return ErrorNoFLACHeader    *)
(* and no File: no metadata block is parsed.                               *)
(***************************************************************************)
C11_MissingHeader ==
    (Parsed /\ Len(input) >= 4 /\ SubSeq(input, 1, 4) # Magic) =>
        /\ last.err = "ErrorNoFLACHeader"
        /\ NoFileReturned

\* "fLac" in front of a whole valid container
C11_Witness ==
    /\ last.op = "ParseBytes"
    /\ Len(input) > 4
    /\ SubSeq(input, 1, 4) = <<102, 76, 97, 99>>
    /\ MetadataCompleteFrom(input, 4)
    /\ last.err = "ErrorNoFLACHeader"
    /\ NoFileReturned

(***************************************************************************)
(* C12. Parsing returns an error and no File whenever the input ends       *)
(* before a block carrying the last flag was read in full: inside a block  *)
(* header, inside a payload, or at a block boundary with no last-flag      *)
(* block seen.                                                             *)
(***************************************************************************)
C12_TruncatedStream ==
    (Parsed /\ HasMagic /\ ~MetadataComplete) =>
        /\ last.err \in {"EOF", "ErrUnexpectedEOF"}
        /\ NoFileReturned

\* the input ends inside the payload of the first block
C12_Witness ==
    /\ last.op = "ParseBytes"
    /\ input = Take(Container(InputBlocks(2, MaxPayload), MaxAudioTail), 4 + 4 + 1)
    /\ last.err = "ErrUnexpectedEOF"
    /\ NoFileReturned

(***************************************************************************)
(* C13. GetStreamInfo returns ErrorNoStreamInfo and no structure whenever  *)
(* the first block's type is not StreamInfo (0), whatever its payload.     *)
(***************************************************************************)
C13_WrongFirstType ==
    (last.op = "GetStreamInfo" /\ Len(Meta) >= 1 /\ Meta[1].Type # 0) =>
        /\ info.err = "ErrorNoStreamInfo"
        /\ info.res = "nil"

\* a Padding block that holds a whole, valid StreamInfo payload
C13_Witness ==
    /\ last.op = "GetStreamInfo"
    /\ Meta = <<MetaDataBlock(Padding, SamplePayload)>>
    /\ info.err = "ErrorNoStreamInfo"
    /\ info.res = "nil"

(***************************************************************************)
(* C14. GetStreamInfo on a File whose Meta is empty returns                *)
(* ErrorNoStreamInfo to the caller as an error value.                      *)
(***************************************************************************)
C14_EmptyMeta ==
    (last.op = "GetStreamInfo" /\ Len(Meta) = 0) => info.err = "ErrorNoStreamInfo"

(***************************************************************************)
(* C15. GetStreamInfo returns an error and no structure for every          *)
(* StreamInfo payload shorter than 34 bytes.                               *)
(***************************************************************************)
C15_ShortPayload ==
    (/\ last.op = "GetStreamInfo"
     /\ Len(Meta) >= 1
     /\ Meta[1].Type = 0
     /\ Len(Meta[1].Data) < 34) =>
        /\ info.err # "nil"
        /\ info.res = "nil"

\* the bits of a byte string, most significant bit of the first byte first
BitsOf(w) ==
    [k \in 1..(8 * Len(w)) |-> (w[((k - 1) \div 8) + 1] \div Pow2(7 - ((k - 1) % 8))) % 2]

\* the group of width bits that follows the first from bits
Group(bits, from, width) == SubSeq(bits, from + 1, from + width)

RECURSIVE BitsValue(_)
\* the number a group of at most 24 bits denotes, big-endian
BitsValue(bits) ==
    IF Len(bits) = 0 THEN 0
    ELSE (2 * BitsValue(SubSeq(bits, 1, Len(bits) - 1))) + bits[Len(bits)]

\* the bits of the first block's payload
PayloadBits == BitsOf(Meta[1].Data)

(***************************************************************************)
(* C16. For every 34-byte StreamInfo payload, the fields GetStreamInfo     *)
(* returns are the successive big-endian bit groups of widths 16, 16, 24,  *)
(* 24, 20, 3 (+1), 5 (+1) and 36 of the payload, and AudioMD5 is its last  *)
(* 16 bytes; ChannelCount is in 1..8, BitDepth in 1..32, SampleCount below *)
(* 2^36 (its top 28 bits are zero); the sample payload decodes to          *)
(* 1152/1152/1650/6130/96000/2/24/3828096.                                 *)
(***************************************************************************)
C16_StreamInfoFields ==
    (/\ last.op = "GetStreamInfo"
     /\ Len(Meta) >= 1
     /\ Meta[1].Type = 0
     /\ Len(Meta[1].Data) = 34) =>
        /\ info.err = "nil"
        /\ info.res.BlockSizeMin = BitsValue(Group(PayloadBits, 0, 16))
        /\ info.res.BlockSizeMax = BitsValue(Group(PayloadBits, 16, 16))
        /\ info.res.FrameSizeMin = BitsValue(Group(PayloadBits, 32, 24))
        /\ info.res.FrameSizeMax = BitsValue(Group(PayloadBits, 56, 24))
        /\ info.res.SampleRate = BitsValue(Group(PayloadBits, 80, 20))
        /\ info.res.ChannelCount = BitsValue(Group(PayloadBits, 100, 3)) + 1
        /\ info.res.BitDepth = BitsValue(Group(PayloadBits, 103, 5)) + 1
        /\ BitsOf(info.res.SampleCount) = [k \in 1..28 |-> 0] \o Group(PayloadBits, 108, 36)
        /\ info.res.AudioMD5 = SubSeq(Meta[1].Data, 19, 34)
        /\ info.res.ChannelCount \in 1..8
        /\ info.res.BitDepth \in 1..32
        /\ Meta[1].Data = SamplePayload =>
              /\ info.res.BlockSizeMin = 1152
              /\ info.res.BlockSizeMax = 1152
              /\ info.res.FrameSizeMin = 1650
              /\ info.res.FrameSizeMax = 6130
              /\ info.res.SampleRate = 96000
              /\ info.res.ChannelCount = 2
              /\ info.res.BitDepth = 24
              /\ info.res.SampleCount = <<0, 0, 0, 0, 0, 58, 105, 128>>

\* every bit of the payload set: the largest value of every field
C16_Witness ==
    /\ last.op = "GetStreamInfo"
    /\ Meta = <<MetaDataBlock(StreamInfo, [k \in 1..34 |-> 255])>>
    /\ info.err = "nil"
    /\ info.res.SampleRate = 1048575
    /\ info.res.ChannelCount = 8
    /\ info.res.BitDepth = 32
    /\ info.res.SampleCount = <<0, 0, 0, 15, 255, 255, 255, 255>>

\* the two bytes of input that follow the metadata
SyncPair == SubSeq(input, FrameStart(input) + 1, Min(FrameStart(input) + 2, Len(input)))

\* 0xFF, then a byte whose top six bits are 111110
IsSync(pair) == Len(pair) = 2 /\ pair[1] = 255 /\ pair[2] \in 248..251

(***************************************************************************)
(* C17. ParseBytes returns nil only if the two bytes after the last        *)
(* metadata block are 0xFF and a byte whose top six bits are 111110; for   *)
(* every other pair of bytes it returns ErrorNoSyncCode and no File.       *)
(***************************************************************************)
C17_SyncCode ==
    (last.op = "ParseBytes" /\ MetadataComplete) =>
        /\ last.err = "nil" => IsSync(SyncPair)
        /\ IsSync(SyncPair) => last.err = "nil"
        /\ (Len(SyncPair) = 2 /\ ~IsSync(SyncPair)) =>
              /\ last.err = "ErrorNoSyncCode"
              /\ NoFileReturned

\* 0xFF 0xFC: the top six bits of the second byte are 111111
C17_Witness ==
    /\ last.op = "ParseBytes"
    /\ MetadataComplete
    /\ SyncPair = <<255, 252>>
    /\ last.err = "ErrorNoSyncCode"
    /\ NoFileReturned

(***************************************************************************)
(* C18. Sync validation consumes nothing: after a successful ParseBytes,   *)
(* the bytes read from File.Frames, with whatever buffer sizes, are the    *)
(* input bytes after the last metadata block, the two sync bytes first,    *)
(* each once and in order, and all of them once Read returns EOF.          *)
(***************************************************************************)
C18_FramesReplaySync ==
    (file.src = "bytes" /\ last.op = "Read") =>
        /\ last.err \in {"nil", "EOF"}
        /\ out = Take(AudioOf(input), Len(out))
        /\ last.err = "EOF" => out = AudioOf(input)

\* the whole frame region read back up to EOF, the sync pair first
C18_Witness ==
    /\ file.src = "bytes"
    /\ last.op = "Read"
    /\ last.err = "EOF"
    /\ Len(out) = 2 + MaxAudioTail
    /\ SubSeq(out, 1, 2) = <<255, 248>>
    /\ out = AudioOf(input)

(***************************************************************************)
(* C19. No block of the Meta returned by ParseMetadata or ParseBytes has   *)
(* type 127.                                                               *)
(***************************************************************************)
C19_NoType127 ==
    Parsed => \A i \in 1..Len(Meta) : Meta[i].Type # 127

RECURSIVE GrowLoop(_, _, _, _)
\* the loop for delta > 0 after one pass returned res
GrowLoopNext(c, i, bs, res) ==
    IF res.err # "nil" THEN res ELSE GrowLoop(res.content, c, i + bs, bs)

\* for i := int64(0); i < audioDataSize; i += bufferSize, end to start
GrowLoop(content, c, i, bs) ==
    IF i >= c.audioDataSize THEN [content |-> content, err |-> "nil"]
    ELSE GrowLoopNext(c, i, bs, GrowChunk(content, c, i, bs))

RECURSIVE ShrinkLoop(_, _, _, _)
\* the loop for delta < 0 after one pass returned res
ShrinkLoopNext(c, i, bs, res) ==
    IF res.err = "break" THEN [content |-> res.content, err |-> "nil"]
    ELSE ShrinkLoop(res.content, c, i + bs, bs)

\* for i := int64(0); i < audioDataSize; i += bufferSize, start to end
ShrinkLoop(content, c, i, bs) ==
    IF i >= c.audioDataSize THEN [content |-> content, err |-> "nil"]
    ELSE ShrinkLoopNext(c, i, bs, ShrinkChunk(content, c, i, bs))

\* file.WriteAt(newMetaBuf.Bytes(), 0) after the data movement returned moved
saveInPlaceWriteHeader(c, moved) ==
    IF moved.err # "nil" THEN moved
    ELSE [content |-> WriteAt(moved.content, 0, c.newMetaBuf), err |-> "nil"]

\* saveInPlace from the test of delta on, with chunks of bs bytes
saveInPlaceMove(content, c, bs) ==
    IF c.delta > 0
    THEN saveInPlaceWriteHeader(c,
            GrowLoop(Truncate(content, c.totalSize + c.delta), c, 0, bs))
    ELSE IF c.delta < 0
         THEN saveInPlaceWriteHeader(c,
                 [content |-> Truncate(ShrinkLoop(content, c, 0, bs).content,
                                       c.totalSize + c.delta),
                  err |-> "nil"])
         ELSE saveInPlaceWriteHeader(c, [content |-> content, err |-> "nil"])

\* fault: the file emptied, as os.Create does, before the checks are made
saveInPlaceEndCreateFirst(content, b, bs) ==
    IF b.err # "nil" THEN [content |-> <<>>, err |-> b.err]
    ELSE saveInPlaceMove(content, b.c, bs)

\* saveInPlace after its checks returned b: the bytes of the file, the error
saveInPlaceEnd(content, b, bs) ==
    IF b.err # "nil" THEN [content |-> content, err |-> b.err]
    ELSE saveInPlaceMove(content, b.c, bs)

\* saveInPlace up to the guard on the audio size, when os.OpenFile succeeds
\* or not and file.Stat() reports totalSize bytes
saveInPlaceChecks(meta, frames, os, fileIn, fd, reopens, totalSize) ==
    IF ~reopens
    THEN [err |-> "failed to reopen file for writing", c |-> NoSave, frames |-> frames,
          open |-> Close(frames, os.open)]
    ELSE saveInPlaceStat(meta, frames,
                         [fs |-> os.fs, open |-> Close(frames, os.open) \cup {fd}],
                         fileIn, fd,
                         ParseMetadata(OsFile(fileIn.name, Resolve(fileIn.name), fd),
                                       [fs |-> os.fs,
                                        open |-> Close(frames, os.open) \cup {fd}]),
                         WriteTo(meta, NilReader, os, NoLimit), totalSize)

\* the sizes another process cuts the file to: inside the magic, inside the
\* first block, at the end of the metadata, one byte into the frames
CutSizes(content) == {2, 6, FrameStart(content), FrameStart(content) + 1}

\* another process cuts the file at "a" between ParseFile and Save
ExternalTruncate(n) ==
    /\ pc = "idle"
    /\ file.src = "a"
    /\ last.op = "ParseFile"
    /\ fs["X"] = input
    /\ n \in CutSizes(input)
    /\ fs' = Store(fs, "X", Take(fs["X"], n))
    /\ UNCHANGED <<input, openFds, Meta, Frames, file, out, last, pre, pc, sv, ops,
                   edits, info>>

\* what file.Stat() finds: the file as it is, or cut by another process to
\* five bytes after ParseMetadata read it
StatCuts == {NoLimit, 5}

\* err := f.Save("a") on a File parsed from "a", the engine run with chunks
\* of bs bytes: last.n records bs, pre the storage as other processes left it
CallSaveChunked(bs, reopens, cut) ==
    /\ CanCall
    /\ file.src = "a"
    /\ isFileBacked(Frames).kind = "file"
    /\ isFileBacked(Frames).fd \in openFds
    /\ SameFile(fs, isFileBacked(Frames), "a")
    /\ \E b \in {saveInPlaceChecks(Meta, Frames, OS, isFileBacked(Frames), NewFd, reopens,
                                    Min(cut, Len(fs["X"])))} :
         \E res \in {saveInPlaceEnd(Take(fs["X"], cut), b, bs)} :
           /\ fs' = Store(fs, "X", res.content)
           /\ pre' = Store(fs, "X", Take(fs["X"], cut))
           /\ Frames' = b.frames
           /\ openFds' = IF res.err = "nil" THEN b.open \ {NewFd} ELSE b.open
           /\ last' = Ret("Save", res.err, bs, "a", "inplace chunked", Frames.kind)
           /\ file' = IF res.err = "nil" THEN [file EXCEPT !.inplace = TRUE] ELSE file
    /\ ops' = ops + 1
    /\ UNCHANGED <<input, Meta, out, pc, sv, edits, info>>

EngineNext ==
    \/ CallParseFile("a")
    \/ \E len \in FreshLens : AppendBlock(len)
    \/ \E i \in 1..MaxInitBlocks + MaxEdits : RemoveBlock(i)
    \/ \E i \in 1..MaxInitBlocks + MaxEdits, len \in 0..MaxPayload : SetData(i, len)
    \/ \E n \in 0..(4 + MaxInitBlocks * (4 + MaxPayload) + 1) : ExternalTruncate(n)
    \/ \E bs \in 1..MaxChunk, reopens \in BOOLEAN, cut \in StatCuts :
           CallSaveChunked(bs, reopens, cut)

EngineSpec == Init /\ [][EngineNext]_vars

(***************************************************************************)
(* The properties of WriteTo's count and of the exhausted frame source.    *)
(***************************************************************************)
RECURSIVE BlocksSize(_, _)
\* the sum over the blocks from index i on of 4 + payload length
BlocksSize(meta, i) ==
    IF i > Len(meta) THEN 0 ELSE 4 + Len(meta[i].Data) + BlocksSize(meta, i + 1)

\* the last call was a WriteTo of the File into one of the sinks
WriteToDone == last.op = "WriteTo" /\ last.mode \in {"sink", "limited sink"}

(***************************************************************************)
(* C21. The count WriteTo returns is the number of bytes the sink          *)
(* accepted, and those bytes are the start of magic, blocks and frames: on *)
(* success 4 + the sum over the blocks of (4 + payload length) + the       *)
(* length of the frame region; when the sink fails, the bytes up to and    *)
(* including the partial failing write, and no byte after them.            *)
(***************************************************************************)
C21_WriteToCount ==
    WriteToDone =>
        /\ last.n = Len(out)
        /\ out = Take(Serialized(Meta) \o FrameStream, last.n)
        /\ last.err = "nil" => last.n = 4 + BlocksSize(Meta, 1) + Len(FrameStream)
        /\ last.err = "ErrSink" => last.n < 4 + BlocksSize(Meta, 1) + Len(FrameStream)

\* the sink failed during the copy of the frames, after a part of them
C21_Witness ==
    /\ WriteToDone
    /\ last.frames0 = "prefix"
    /\ last.err = "ErrSink"
    /\ last.n = Len(Serialized(Meta)) + 1
    /\ Len(Meta) = MaxInitBlocks
    /\ out = Take(Serialized(Meta) \o FrameStream, last.n)

(***************************************************************************)
(* C22. A WriteTo on a File whose frame source is already the ErrorReader  *)
(* hands the sink no byte, neither magic nor blocks, before it returns     *)
(* ErrorAlreadyWritten.                                                    *)
(***************************************************************************)
C22_ExhaustedWritesNothing ==
    (WriteToDone /\ last.frames0 = "error") =>
        /\ Len(out) = 0
        /\ last.err = "ErrorAlreadyWritten"

(***************************************************************************)
(* The properties of the data movement of saveInPlace, chunk by chunk.     *)
(***************************************************************************)
\* the bytes of the file saveInPlace works on now, and when Save was called
Now == fs[sv.obj]
Orig == pre[sv.obj]

\* how many bytes of the frame region the loop has moved so far
Moved == Min(sv.i, sv.audioDataSize)

\* the bytes of s at the offsets from, from + 1, ..., from + n - 1
Range(s, from, n) == SubSeq(s, from + 1, from + n)

(***************************************************************************)
(* C23. In-place growth (delta > 0): the file has its new length before    *)
(* the first chunk is copied; the chunks moved so far are the last bytes   *)
(* of the frame region, at their final offsets; and every byte the loop    *)
(* has still to read holds the value it had when Save was called.          *)
(***************************************************************************)
C23_GrowOrder ==
    (pc = "grow" \/ (pc = "header" /\ sv.delta > 0)) =>
        /\ sv.delta > 0
        /\ Len(Now) = sv.totalSize + sv.delta
        /\ Range(Now, sv.originalHeaderSize, sv.audioDataSize - Moved)
               = Range(Orig, sv.originalHeaderSize, sv.audioDataSize - Moved)
        /\ Range(Now, sv.originalHeaderSize + sv.delta + sv.audioDataSize - Moved, Moved)
               = Range(Orig, sv.originalHeaderSize + sv.audioDataSize - Moved, Moved)

\* one chunk moved by less than its length, two chunks still to read
C23_Witness ==
    /\ pc = "grow"
    /\ sv.delta = 1
    /\ sv.i = bufferSize
    /\ sv.audioDataSize = 2 + MaxAudioTail
    /\ Range(Now, sv.originalHeaderSize, sv.audioDataSize - Moved)
           = Range(Orig, sv.originalHeaderSize, sv.audioDataSize - Moved)
    /\ Now[sv.totalSize + sv.delta] = Orig[sv.totalSize]

(***************************************************************************)
(* C24. In-place shrink (delta < 0): the chunks moved so far are the first *)
(* bytes of the frame region, each delta below where it was; every byte    *)
(* the loop has still to read holds its original value; the file keeps its *)
(* length until the loop has ended, is cut to totalSize + delta then, and  *)
(* its first bytes are rewritten only after that.                          *)
(***************************************************************************)
C24_ShrinkOrder ==
    /\ pc \in {"shrink", "truncate"} =>
          /\ sv.delta < 0
          /\ Len(Now) = sv.totalSize
          /\ pc = "truncate" => Moved = sv.audioDataSize
          /\ Range(Now, sv.originalHeaderSize + Moved, sv.audioDataSize - Moved)
                 = Range(Orig, sv.originalHeaderSize + Moved, sv.audioDataSize - Moved)
          /\ Range(Now, sv.originalHeaderSize + sv.delta, Moved)
                 = Range(Orig, sv.originalHeaderSize, Moved)
          /\ Range(Now, 0, sv.newHeaderSize) = Range(Orig, 0, sv.newHeaderSize)
    /\ (pc = "header" /\ sv.delta < 0) =>
          /\ Len(Now) = sv.totalSize + sv.delta
          /\ Range(Now, sv.newHeaderSize, sv.audioDataSize)
                 = Range(Orig, sv.originalHeaderSize, sv.audioDataSize)
          /\ Range(Now, 0, sv.newHeaderSize) = Range(Orig, 0, sv.newHeaderSize)

\* one chunk moved down by one byte, the file not yet cut
C24_Witness ==
    /\ pc = "shrink"
    /\ sv.delta = -1
    /\ sv.i = bufferSize
    /\ sv.audioDataSize = 2 + MaxAudioTail
    /\ Len(Now) = sv.totalSize
    /\ Range(Now, sv.originalHeaderSize - 1, bufferSize)
           = Range(Orig, sv.originalHeaderSize, bufferSize)

\* the last call was an in-place Save run with a chosen chunk size
ChunkedSave == last.op = "Save" /\ last.mode = "inplace chunked"

\* the errors of the checks saveInPlace makes before it moves data
CheckErrors ==
    {"failed to reopen file for writing", "failed to parse metadata", "invalid file format"}

(***************************************************************************)
(* C25. For every chunk size from 1 up (above the length of the frame      *)
(* region, dividing it or not) and every frame region (none, one byte,     *)
(* more), an in-place Save that passes its checks returns nil and leaves   *)
(* the new magic and metadata followed by the frame bytes the file held.   *)
(***************************************************************************)
C25_AnyChunkSize ==
    ChunkedSave =>
        /\ last.err \in {"nil"} \cup CheckErrors
        /\ last.err = "nil" =>
              fs["X"] = Serialized(Meta) \o AudioOf(pre["X"])

\* growth by one byte, in chunks of three, of a frame region of five bytes
C25_Witness ==
    /\ ChunkedSave
    /\ last.err = "nil"
    /\ last.n = 3
    /\ Len(AudioOf(pre["X"])) = 5
    /\ Len(Serialized(Meta)) = FrameStart(pre["X"]) + 1
    /\ fs["X"] = Serialized(Meta) \o AudioOf(pre["X"])

(***************************************************************************)
(* C26. An in-place Save that fails at reopening the file, at parsing its  *)
(* metadata again or at the guard on a negative audio size returns that    *)
(* error and has changed no byte and no length of any file.                *)
(***************************************************************************)
C26_ChecksBeforeChanges ==
    (ChunkedSave /\ last.err \in CheckErrors) => fs = pre

\* the file found shorter than its own header by file.Stat()
C26_Witness ==
    /\ ChunkedSave
    /\ last.err = "invalid file format"
    /\ Len(pre["X"]) = 5
    /\ fs = pre

(***************************************************************************)
(* C27. When a WriteTo that reached the copy of a non-nil frame source     *)
(* returns, with nil or with the error of a copy that failed part-way, the *)
(* frame source of the File is the ErrorReader and the source it replaced  *)
(* is closed: the descriptor ParseFile opened is open no more.             *)
(***************************************************************************)
C27_ExhaustedAndClosed ==
    (WriteToDone /\ last.frames0 = "prefix" /\ last.n >= Len(Serialized(Meta))) =>
        /\ Frames = ErrorReader("ErrorAlreadyWritten")
        /\ file.fd \notin openFds

(***************************************************************************)
(* C28. ParseMetadata stops on every input, within the input: at the first *)
(* read error, or after the first block that carries the last flag.  On    *)
(* success it has read 4 + the sum over the blocks of (4 + declared        *)
(* length) bytes, at least four for each block, only the final block read  *)
(* carries the flag, and the offset reached is that of the first byte of   *)
(* the frame region.                                                       *)
(***************************************************************************)
C28_ParseStops ==
    last.op = "ParseMetadata" =>
        /\ last.n <= Len(input)
        /\ MetadataComplete => last.err = "nil"
        /\ last.err = "nil" =>
              /\ MetadataComplete
              /\ Len(Meta) >= 1
              /\ last.n = 4 + BlocksSize(Meta, 1)
              /\ last.n >= 4 + 4 * Len(Meta)
              /\ last.n = FrameStart(input)
              /\ FlagsFrom(input, 4, Len(Meta))
                     = [k \in 1..Len(Meta) |-> IF k = Len(Meta) THEN 1 ELSE 0]

\* a first block with the last flag, in front of more bytes that read as a
\* flagged block: one block parsed, the reader left after it
C28_Witness ==
    /\ last.op = "ParseMetadata"
    /\ last.err = "nil"
    /\ Len(Meta) = 1
    /\ last.n = 4 + 4 + 1
    /\ Len(input) > last.n + 4
    /\ input[last.n + 1] = 128 + Padding

====
